---- MODULE Spec2Model ----
(***************************************************************************)
(* gcpx: the context store and its operations (save, switch, delete, run,  *)
(* login) over the file system and the gcloud / kubectl command line tools.*)
(*                                                                         *)
(* Strings are sequences of code points.  An optional value (Option<T>, a  *)
(* file that may not exist) is the empty sequence or a one-element         *)
(* sequence.  Every operation is an operator from the state before the     *)
(* call and the environment's answers during the call to the state after   *)
(* it, its result and the external commands it ran.                        *)
(***************************************************************************)
EXTENDS Integers, Sequences, FiniteSets, TLC

\* store, marker: the context store and its .current file
\* liveAdc: the provider's application_default_credentials.json
\* activeProfile, kubectlCtx: the active gcloud configuration and kubectl context
\* last: the invocation of gcpx that has just returned (op "idle" at the prompt)
\* trip: history of the last save / save / switch / switch sequence
VARIABLES store, marker, liveAdc, activeProfile, kubectlCtx, last, trip

vars == <<store, marker, liveAdc, activeProfile, kubectlCtx, last, trip>>

-----------------------------------------------------------------------------
(* Bounds of the model. *)

\* longest string handed to the name validator
MaxLen == 3
\* number of distinct credential blobs the provider can hold
NumBlobs == 2

-----------------------------------------------------------------------------
(* Options and strings. *)

None == <<>>
Some(x) == <<x>>
IsSome(o) == o # <<>>
Get(o) == o[1]

\* "none"
StrNone == <<110, 111, 110, 101>>
\* "default"
StrDefault == <<100, 101, 102, 97, 117, 108, 116>>
\* "(unset)"
StrUnset == <<40, 117, 110, 115, 101, 116, 41>>
\* "a"
StrA == <<97>>
\* ".a"
StrDotA == <<46, 97>>
\* "u", "p", "k": an account, a project, a kubectl context
StrAcct == <<117>>
StrProj == <<112>>
StrKube == <<107>>

\* char::is_whitespace on the code points the model uses
IsWhitespace(c) == c \in {9, 10, 13, 32}

RECURSIVE TrimStart(_)
TrimStart(s) ==
    IF s # <<>> /\ IsWhitespace(Head(s)) THEN TrimStart(Tail(s)) ELSE s

RECURSIVE TrimEnd(_)
TrimEnd(s) ==
    IF s # <<>> /\ IsWhitespace(s[Len(s)])
    THEN TrimEnd(SubSeq(s, 1, Len(s) - 1))
    ELSE s

\* str::trim
Trim(s) == TrimEnd(TrimStart(s))

\* str::contains(char)
Contains(s, c) == \E i \in 1..Len(s) : s[i] = c

\* str::starts_with(char)
StartsWith(s, c) == s # <<>> /\ s[1] = c

\* char::is_ascii_control: U+0000..=U+001F and U+007F
is_ascii_control(c) == c \in 0..31 \/ c = 127

\* Ord for str: lexicographic on code points
RECURSIVE StrLess(_, _)
StrLess(s, t) ==
    IF t = <<>> THEN FALSE
    ELSE IF s = <<>> THEN TRUE
    ELSE IF Head(s) # Head(t) THEN Head(s) < Head(t)
    ELSE StrLess(Tail(s), Tail(t))

-----------------------------------------------------------------------------
(* Name validator. *)

\* a validator without the leading-dot rule
validate_no_dot_check(name) ==
    /\ name # <<>>
    /\ ~(name = <<46>> \/ name = <<46, 46>>)
    /\ ~(Contains(name, 47) \/ Contains(name, 92))
    /\ ~(\E i \in 1..Len(name) : is_ascii_control(name[i]))

\* TRUE when validate_context_name returns Ok(())
validate_context_name(name) ==
    /\ name # <<>>
    /\ ~(name = <<46>> \/ name = <<46, 46>>)
    /\ ~StartsWith(name, 46)
    /\ ~(Contains(name, 47) \/ Contains(name, 92))
    /\ ~(\E i \in 1..Len(name) : is_ascii_control(name[i]))

-----------------------------------------------------------------------------
(* The inputs the model draws. *)

\* context names handed to the operations: "a", "none", "", ".a"
NameInputs == {StrA, StrNone, <<>>, StrDotA}

\* contents of the provider's credential file
Blobs == 1..NumBlobs

\* how one external command ends: it ran and exited zero, it ran and exited
\* non-zero, or it could not be started
ToolModes == {"ok", "fail", "nospawn"}

\* std::process::Output of a command
ToolOutput(spawned, success, out) ==
    [spawned |-> spawned, success |-> success, stdout |-> out]

NotSpawned == ToolOutput(FALSE, FALSE, <<>>)

\* one external command an operation ran: the tool, the subcommand, its
\* argument (a profile or kubectl context) and, for a child of run, the
\* context whose stored adc.json GOOGLE_APPLICATION_CREDENTIALS points at
Call(tool, cmd, arg, adc) == [tool |-> tool, cmd |-> cmd, arg |-> arg, adc |-> adc]

-----------------------------------------------------------------------------
(* State of the workstation seen by one invocation. *)

\* permission bits of a file created by fs::write under the usual umask 022
DefaultMode == 420
\* 0o600
Mode600 == 384

EmptyDir == [adc |-> None, meta |-> None]

State == [store |-> store, marker |-> marker, live |-> liveAdc,
          profile |-> activeProfile, kctx |-> kubectlCtx]

\* what an operation returns: the state it leaves, Ok or the error, and the
\* external commands it ran
Done(s, result, calls) == [s |-> s, result |-> result, calls |-> calls]

-----------------------------------------------------------------------------
(* Path resolver and store queries. *)

\* context_exists: the stored adc.json exists
context_exists(s, name) ==
    IsSome(s.store[name]) /\ IsSome(Get(s.store[name]).adc)

\* the bytes of the stored adc.json of an existing context
stored_blob(s, name) == Get(Get(s.store[name]).adc).content

stored_mode(s, name) == Get(Get(s.store[name]).adc).mode

\* fs::create_dir_all(get_context_dir(name))
create_dir_all(s, name) ==
    IF IsSome(s.store[name]) THEN s
    ELSE [s EXCEPT !.store[name] = Some(EmptyDir)]

\* fs::write(dest_adc, content): a new file gets the default mode, an
\* existing one keeps its mode
write_stored_adc(s, name, content) ==
    LET dir == Get(s.store[name])
        mode == IF IsSome(dir.adc) THEN Get(dir.adc).mode ELSE DefaultMode
    IN [s EXCEPT !.store[name] =
            Some([dir EXCEPT !.adc = Some([content |-> content, mode |-> mode])])]

\* a chmod that changes nothing
set_permissions_skip(s, name) == s

\* fs::set_permissions(dest_adc, 0o600)
set_permissions(s, name) ==
    LET dir == Get(s.store[name])
    IN [s EXCEPT !.store[name] =
            Some([dir EXCEPT !.adc = Some([Get(dir.adc) EXCEPT !.mode = Mode600])])]

\* a removal of adc.json alone, leaving the directory and its metadata
remove_adc_only(s, name) ==
    [s EXCEPT !.store[name] = Some([Get(s.store[name]) EXCEPT !.adc = None])]

\* a removal that also removes the marker when it names the context
remove_dir_all_clear_marker(s, name) ==
    [s EXCEPT !.store[name] = None,
              !.marker = IF s.marker = Some(name) THEN None ELSE s.marker]

\* fs::remove_dir_all(get_context_dir(name))
remove_dir_all(s, name) == [s EXCEPT !.store[name] = None]

-----------------------------------------------------------------------------
(* Metadata store.  The text of metadata.json is the sequence of its       *)
(* <<key, value>> members; an optional value is null (None) or a string.   *)

ContextMetadata(cfg, account, project, kctx) ==
    [gcloud_config |-> cfg, account |-> account, project |-> project,
     kubectl_context |-> kctx]

\* serde_json::to_string_pretty: kubectl_context is skipped when None
to_string_pretty(m) ==
    << <<"gcloud_config", Some(m.gcloud_config)>>,
       <<"account", m.account>>,
       <<"project", m.project>> >>
    \o (IF IsSome(m.kubectl_context)
        THEN << <<"kubectl_context", m.kubectl_context>> >>
        ELSE <<>>)

HasKey(text, key) == \E i \in 1..Len(text) : text[i][1] = key

KeyValue(text, key) == text[CHOOSE i \in 1..Len(text) : text[i][1] = key][2]

\* serde_json::from_str: gcloud_config is required and must be a string, a
\* missing optional member is None
from_str(text) ==
    IF HasKey(text, "gcloud_config") /\ IsSome(KeyValue(text, "gcloud_config"))
    THEN [ok |-> TRUE,
          val |-> ContextMetadata(
              Get(KeyValue(text, "gcloud_config")),
              IF HasKey(text, "account") THEN KeyValue(text, "account") ELSE None,
              IF HasKey(text, "project") THEN KeyValue(text, "project") ELSE None,
              IF HasKey(text, "kubectl_context")
              THEN KeyValue(text, "kubectl_context") ELSE None)]
    ELSE [ok |-> FALSE, val |-> ContextMetadata(<<>>, None, None, None)]

\* a metadata writer that merges: members the new record lacks keep the old
\* file's value
save_context_metadata_merge(s, name, metadata) ==
    LET dir == Get(s.store[name])
        new == to_string_pretty(metadata)
        old == IF IsSome(dir.meta) THEN Get(dir.meta) ELSE <<>>
        kept == SelectSeq(old, LAMBDA kv : ~HasKey(new, kv[1]))
    IN [s EXCEPT !.store[name] = Some([dir EXCEPT !.meta = Some(new \o kept)])]

\* save_context_metadata: fs::write replaces the whole file
save_context_metadata(s, name, metadata) ==
    LET dir == Get(s.store[name])
    IN [s EXCEPT !.store[name] =
            Some([dir EXCEPT !.meta = Some(to_string_pretty(metadata))])]

\* a failed fs::write that had already truncated metadata.json
truncate_metadata(s, name) ==
    LET dir == Get(s.store[name])
    IN [s EXCEPT !.store[name] = Some([dir EXCEPT !.meta = Some(<<>>)])]

\* load_context_metadata: Ok(None) without a file, Err when the file cannot
\* be read or parsed.  Returns [ok, val] with val an Option<ContextMetadata>.
load_context_metadata(s, name, fault) ==
    LET dir == Get(s.store[name])
    IN IF ~IsSome(dir.meta) THEN [ok |-> TRUE, err |-> "", val |-> None]
       ELSE IF fault = "meta_read" THEN [ok |-> FALSE, err |-> "Io", val |-> None]
       ELSE LET parsed == from_str(Get(dir.meta))
            IN IF parsed.ok
               THEN [ok |-> TRUE, err |-> "", val |-> Some(parsed.val)]
               ELSE [ok |-> FALSE, err |-> "CorruptMetadata", val |-> None]

-----------------------------------------------------------------------------
(* Active-context tracker and listing. *)

\* a tracker that never writes the marker
set_current_tracking_skip(s, name) == s

\* set_current_tracking: fs::write(".current", name)
set_current_tracking(s, name) == [s EXCEPT !.marker = Some(name)]

\* a tracker that degrades to the empty string
get_current_tracking_empty(s, fault) ==
    IF fault = "store_dir" THEN <<>>
    ELSE IF fault = "marker_read" \/ ~IsSome(s.marker) THEN <<>>
    ELSE Get(s.marker)

\* get_current_tracking: the marker file's text, "none" when the store root
\* or the file cannot be read
get_current_tracking(s, fault) ==
    IF fault = "store_dir" THEN StrNone
    ELSE IF fault = "marker_read" \/ ~IsSome(s.marker) THEN StrNone
    ELSE Get(s.marker)

\* ".current"
StrCurrent == <<46, 99, 117, 114, 114, 101, 110, 116>>

\* fs::read_dir(store_dir): one entry per context directory, and the marker
\* file once it has been written
read_dir(s) ==
    {[name |-> n, is_dir |-> TRUE] : n \in {m \in DOMAIN s.store : IsSome(s.store[m])}}
    \cup (IF IsSome(s.marker) THEN {[name |-> StrCurrent, is_dir |-> FALSE]} ELSE {})

\* a listing that takes every entry of the store root
listed_names_unfiltered(s) == {entry.name : entry \in read_dir(s)}

\* the names fs::read_dir yields that are directories and not hidden
listed_names(s) ==
    {entry.name : entry \in {d \in read_dir(s) : d.is_dir /\ ~StartsWith(d.name, 46)}}

StrMin(S) == CHOOSE m \in S : \A n \in S : n = m \/ StrLess(m, n)

RECURSIVE Sorted(_)
Sorted(S) ==
    IF S = {} THEN <<>>
    ELSE LET m == StrMin(S) IN <<m>> \o Sorted(S \ {m})

\* list_contexts: the names above, sorted
list_contexts(s) == Sorted(listed_names(s))

-----------------------------------------------------------------------------
(* External tool adapters.  The gcloud and kubectl programs themselves are *)
(* the environment: what they print follows the workstation's state, how   *)
(* they end is drawn by the caller.                                        *)

\* gcloud config configurations list --filter=is_active=true
gcloud_list_active(s, mode) ==
    CASE mode = "ok" -> ToolOutput(TRUE, TRUE, s.profile \o <<10>>)
      [] mode = "fail" -> ToolOutput(TRUE, FALSE, <<>>)
      [] OTHER -> NotSpawned

\* kubectl config current-context: exits non-zero when no context is set
kubectl_current_context(s, mode) ==
    CASE mode = "ok" /\ IsSome(s.kctx) -> ToolOutput(TRUE, TRUE, Get(s.kctx) \o <<10>>)
      [] mode = "nospawn" -> NotSpawned
      [] OTHER -> ToolOutput(TRUE, FALSE, <<>>)

\* what gcloud config get-value account / project may print
ValueOutputs(value) ==
    {NotSpawned, ToolOutput(TRUE, FALSE, <<>>),
     ToolOutput(TRUE, TRUE, StrUnset \o <<10>>),
     ToolOutput(TRUE, TRUE, value \o <<10>>)}

\* get_current_gcloud_config: [ok, val]
get_current_gcloud_config(output) ==
    IF ~output.spawned THEN [ok |-> FALSE, val |-> <<>>]
    ELSE LET config == Trim(output.stdout)
         IN [ok |-> TRUE, val |-> IF config = <<>> THEN StrDefault ELSE config]

\* get_current_gcloud_account and get_current_gcloud_project: [ok, val]
get_current_gcloud_value(output) ==
    IF ~output.spawned THEN [ok |-> FALSE, val |-> None]
    ELSE LET value == Trim(output.stdout)
         IN [ok |-> TRUE,
             val |-> IF value = <<>> \/ value = StrUnset THEN None ELSE Some(value)]

\* get_current_kubectl_context: an Option
get_current_kubectl_context(output) ==
    IF ~output.spawned THEN None
    ELSE IF ~output.success THEN None
    ELSE LET context == Trim(output.stdout)
         IN IF context = <<>> THEN None ELSE Some(context)

\* switch_kubectl_context: the state after kubectl config use-context
switch_kubectl_context(s, context, mode) ==
    IF mode = "ok" THEN [s EXCEPT !.kctx = Some(context)] ELSE s

\* gcloud config configurations activate / create <profile>
gcloud_activate(s, profile, mode) ==
    IF mode = "ok" THEN [s EXCEPT !.profile = profile] ELSE s

-----------------------------------------------------------------------------
(* Operation: save. *)

\* the answers and failures one call of save_context can meet
SaveEnv(cfg, acct, proj, kctl, fault) ==
    [cfg |-> cfg, acct |-> acct, proj |-> proj, kctl |-> kctl, fault |-> fault]

AcctOk == ToolOutput(TRUE, TRUE, StrAcct \o <<10>>)
ProjOk == ToolOutput(TRUE, TRUE, StrProj \o <<10>>)

\* the file-system calls of save_context that can fail
SaveFaults == {"store_dir", "mkdir", "read_live", "adc_write", "meta_create",
               "meta_write", "chmod", "marker_write"}

SaveEnvOk == SaveEnv("ok", AcctOk, ProjOk, "ok", "none")

\* the profile query ending each way
SaveEnvs == {SaveEnv(m, AcctOk, ProjOk, "ok", "none") : m \in ToolModes}

\* the account, the project and the kubectl query answering each way
SaveAnswerEnvs ==
    {SaveEnv("ok", a, ProjOk, "ok", "none") : a \in ValueOutputs(StrAcct)}
    \cup {SaveEnv("ok", AcctOk, p, "ok", "none") : p \in ValueOutputs(StrProj)}
    \cup {SaveEnv("ok", ToolOutput(TRUE, TRUE, StrUnset \o <<10>>),
                  ToolOutput(TRUE, FALSE, <<>>), "ok", "none")}
    \cup {SaveEnv("ok", AcctOk, ProjOk, m, "none") : m \in ToolModes}

\* one file-system call failing
SaveFaultEnvs == {SaveEnv("ok", AcctOk, ProjOk, "ok", f) : f \in SaveFaults}

SaveQueryCalls ==
    << Call("gcloud", "list-active", <<>>, <<>>),
       Call("gcloud", "get-account", <<>>, <<>>),
       Call("gcloud", "get-project", <<>>, <<>>),
       Call("kubectl", "current-context", <<>>, <<>>) >>

\* save.rs lines 43-84: the file-system half of save_context
save_files(s, name, metadata, fault, calls) ==
    IF fault = "store_dir" \/ fault = "mkdir" THEN Done(s, "Io", calls)
    ELSE LET s1 == create_dir_all(s, name)
    IN IF fault = "read_live" \/ fault = "adc_write" THEN Done(s1, "Io", calls)
    ELSE LET s2 == write_stored_adc(s1, name, Get(s.live))
    IN IF fault = "meta_create" THEN Done(s2, "Io", calls)
    ELSE IF fault = "meta_write" THEN Done(truncate_metadata(s2, name), "Io", calls)
    ELSE LET s3 == save_context_metadata(s2, name, metadata)
    IN IF fault = "chmod" THEN Done(s3, "Io", calls)
    ELSE LET s4 == set_permissions(s3, name)
    IN IF fault = "marker_write" THEN Done(s4, "Io", calls)
    ELSE Done(set_current_tracking(s4, name), "Ok", calls)

\* save.rs lines 35-41 and on: the four queries, then the files
save_capture(s, name, e) ==
    LET gcloud_config == get_current_gcloud_config(gcloud_list_active(s, e.cfg))
        account == get_current_gcloud_value(e.acct)
        project == get_current_gcloud_value(e.proj)
        kubectl_context ==
            get_current_kubectl_context(kubectl_current_context(s, e.kctl))
    IN IF ~gcloud_config.ok THEN Done(s, "SpawnFailed", SubSeq(SaveQueryCalls, 1, 1))
       ELSE IF ~account.ok THEN Done(s, "SpawnFailed", SubSeq(SaveQueryCalls, 1, 2))
       ELSE IF ~project.ok THEN Done(s, "SpawnFailed", SubSeq(SaveQueryCalls, 1, 3))
       ELSE save_files(s, name,
                       ContextMetadata(gcloud_config.val, account.val, project.val,
                                       kubectl_context),
                       e.fault, SaveQueryCalls)

\* a save that creates the context directory and runs the queries before it
\* looks for the credentials
save_context_credentials_late(s, name, quiet, e) ==
    IF ~validate_context_name(name) THEN Done(s, "InvalidName", <<>>)
    ELSE IF ~IsSome(s.live)
         THEN Done(create_dir_all(s, name), "NoCredentials", SaveQueryCalls)
    ELSE save_capture(s, name, e)

\* a save that leaves the marker alone when it is quiet
save_context_quiet_untracked(s, name, quiet, e) ==
    LET r == IF ~validate_context_name(name) THEN Done(s, "InvalidName", <<>>)
             ELSE IF ~IsSome(s.live) THEN Done(s, "NoCredentials", <<>>)
             ELSE save_capture(s, name, e)
    IN IF quiet THEN Done([r.s EXCEPT !.marker = s.marker], r.result, r.calls)
       ELSE r

save_context(s, name, quiet, e) ==
    IF ~validate_context_name(name) THEN Done(s, "InvalidName", <<>>)
    ELSE IF ~IsSome(s.live) THEN Done(s, "NoCredentials", <<>>)
    ELSE save_capture(s, name, e)

-----------------------------------------------------------------------------
(* Operation: switch. *)

SwitchEnv(activate, kube, fault) ==
    [activate |-> activate, kube |-> kube, fault |-> fault]

SwitchFaults == {"store_dir", "marker_read", "meta_read", "read_stored",
                 "live_write", "marker_write"}

\* profile activation and the kubectl switch ending each way
SwitchEnvs ==
    {SwitchEnv(m, "ok", "none") : m \in ToolModes}
    \cup {SwitchEnv("ok", m, "none") : m \in ToolModes}

\* one file-system call failing
SwitchFaultEnvs == {SwitchEnv("ok", "ok", f) : f \in SwitchFaults}

\* a resolution that always takes the context name
profile_of_name(metadata, name) == name

\* the profile of a context: metadata's gcloud_config, the name without
\* metadata (switch.rs 59-62, run.rs 36-39)
profile_of(metadata, name) ==
    IF IsSome(metadata) THEN Get(metadata).gcloud_config ELSE name

\* a restore that leaves the provider's file as it is
write_live_adc_skip(s, content) == s

\* fs::write(target_adc, content)
write_live_adc(s, content) == [s EXCEPT !.live = Some(content)]

\* a restore for which a kubectl switch that fails is fatal
switch_restore_kubectl_fatal(s, name, metadata, e, calls) ==
    IF e.fault = "read_stored" \/ e.fault = "live_write" THEN Done(s, "Io", calls)
    ELSE LET s1 == write_live_adc(s, stored_blob(s, name))
             kube == IsSome(metadata) /\ IsSome(Get(metadata).kubectl_context)
             kctx == Get(Get(metadata).kubectl_context)
             s2 == IF kube THEN switch_kubectl_context(s1, kctx, e.kube) ELSE s1
             calls2 == IF kube
                       THEN Append(calls, Call("kubectl", "use-context", kctx, <<>>))
                       ELSE calls
    IN IF kube /\ e.kube # "ok" THEN Done(s2, "ExternalToolError", calls2)
       ELSE IF e.fault = "marker_write" THEN Done(s2, "Io", calls2)
       ELSE Done(set_current_tracking(s2, name), "Ok", calls2)

\* switch.rs lines 82-113: restore the credentials, switch kubectl, track
switch_restore(s, name, metadata, e, calls) ==
    IF e.fault = "read_stored" \/ e.fault = "live_write" THEN Done(s, "Io", calls)
    ELSE LET s1 == write_live_adc(s, stored_blob(s, name))
             kube == IsSome(metadata) /\ IsSome(Get(metadata).kubectl_context)
             kctx == Get(Get(metadata).kubectl_context)
             s2 == IF kube THEN switch_kubectl_context(s1, kctx, e.kube) ELSE s1
             calls2 == IF kube
                       THEN Append(calls, Call("kubectl", "use-context", kctx, <<>>))
                       ELSE calls
    IN IF e.fault = "marker_write" THEN Done(s2, "Io", calls2)
       ELSE Done(set_current_tracking(s2, name), "Ok", calls2)

\* a switch that only warns when the activation exits non-zero
switch_activate_warn(s, name, e) ==
    LET loaded == load_context_metadata(s, name, e.fault)
        gcloud_config == profile_of(loaded.val, name)
        calls == << Call("gcloud", "activate", gcloud_config, <<>>) >>
    IN IF ~loaded.ok THEN Done(s, loaded.err, <<>>)
       ELSE IF e.activate = "nospawn" THEN Done(s, "SpawnFailed", calls)
       ELSE switch_restore(gcloud_activate(s, gcloud_config, e.activate),
                           name, loaded.val, e, calls)

\* switch.rs lines 57-80: load the metadata and activate the profile
switch_activate(s, name, e) ==
    LET loaded == load_context_metadata(s, name, e.fault)
        gcloud_config == profile_of(loaded.val, name)
        calls == << Call("gcloud", "activate", gcloud_config, <<>>) >>
    IN IF ~loaded.ok THEN Done(s, loaded.err, <<>>)
       ELSE IF e.activate = "nospawn" THEN Done(s, "SpawnFailed", calls)
       ELSE IF e.activate = "fail" THEN Done(s, "ExternalToolError", calls)
       ELSE switch_restore(gcloud_activate(s, gcloud_config, e.activate),
                           name, loaded.val, e, calls)

\* a switch that reads the marker before it looks for the stored credentials
switch_context_marker_first(s, name, quiet, e) ==
    IF ~validate_context_name(name) THEN Done(s, "InvalidName", <<>>)
    ELSE IF e.fault = "store_dir" THEN Done(s, "Io", <<>>)
    ELSE IF get_current_tracking(s, e.fault) = name THEN Done(s, "Ok", <<>>)
    ELSE IF ~context_exists(s, name) THEN Done(s, "ContextNotFound", <<>>)
    ELSE switch_activate(s, name, e)

\* a switch without the already-active short-circuit
switch_context_no_short_circuit(s, name, quiet, e) ==
    IF ~validate_context_name(name) THEN Done(s, "InvalidName", <<>>)
    ELSE IF e.fault = "store_dir" THEN Done(s, "Io", <<>>)
    ELSE IF ~context_exists(s, name) THEN Done(s, "ContextNotFound", <<>>)
    ELSE switch_activate(s, name, e)

switch_context(s, name, quiet, e) ==
    IF ~validate_context_name(name) THEN Done(s, "InvalidName", <<>>)
    ELSE IF e.fault = "store_dir" THEN Done(s, "Io", <<>>)
    ELSE IF ~context_exists(s, name) THEN Done(s, "ContextNotFound", <<>>)
    ELSE IF get_current_tracking(s, e.fault) = name THEN Done(s, "Ok", <<>>)
    ELSE switch_activate(s, name, e)

-----------------------------------------------------------------------------
(* Operation: delete. *)

\* del: how gcloud config configurations delete ends; dne: its stderr
\* contains "does not exist"
DeleteEnv(del, dne, fault) == [del |-> del, dne |-> dne, fault |-> fault]

DeleteFaults == {"store_dir", "marker_read", "rmdir"}

\* the deletion of the gcloud configuration ending each way
DeleteEnvs ==
    {DeleteEnv(m, FALSE, "none") : m \in ToolModes}
    \cup {DeleteEnv("fail", TRUE, "none")}

\* one file-system call failing
DeleteFaultEnvs == {DeleteEnv("ok", FALSE, f) : f \in DeleteFaults}

\* delete.rs lines 36-55: the optional deletion of the gcloud configuration
delete_gcloud_configuration(s, name, e) ==
    LET calls == << Call("gcloud", "delete", name, <<>>) >>
    IN IF e.del = "nospawn" THEN Done(s, "SpawnFailed", calls)
       ELSE IF e.del = "fail" /\ ~e.dne THEN Done(s, "ExternalToolError", calls)
       ELSE Done(s, "Ok", calls)

\* a delete that deletes the gcloud configuration first and removes the
\* directory only when that went well
delete_context_profile_first(s, name, delete_gcloud_config, e) ==
    IF ~validate_context_name(name) THEN Done(s, "InvalidName", <<>>)
    ELSE IF e.fault = "store_dir" THEN Done(s, "Io", <<>>)
    ELSE IF ~context_exists(s, name) THEN Done(s, "ContextNotFound", <<>>)
    ELSE LET r == IF delete_gcloud_config THEN delete_gcloud_configuration(s, name, e)
                  ELSE Done(s, "Ok", <<>>)
         IN IF r.result # "Ok" THEN r
            ELSE IF e.fault = "rmdir" THEN Done(s, "Io", r.calls)
            ELSE Done(remove_dir_all(s, name), "Ok", r.calls)

delete_context(s, name, delete_gcloud_config, e) ==
    IF ~validate_context_name(name) THEN Done(s, "InvalidName", <<>>)
    ELSE IF e.fault = "store_dir" THEN Done(s, "Io", <<>>)
    ELSE IF ~context_exists(s, name) THEN Done(s, "ContextNotFound", <<>>)
    ELSE IF e.fault = "rmdir" THEN Done(s, "Io", <<>>)
    ELSE LET s1 == remove_dir_all(s, name)
         IN IF delete_gcloud_config THEN delete_gcloud_configuration(s1, name, e)
            ELSE Done(s1, "Ok", <<>>)

-----------------------------------------------------------------------------
(* Operation: run. *)

RunEnv(child, fault) == [child |-> child, fault |-> fault]

RunFaults == {"store_dir", "meta_read"}

\* the child ending each way
RunEnvs == {RunEnv(m, "none") : m \in ToolModes}

\* one file-system call failing
RunFaultEnvs == {RunEnv("ok", f) : f \in RunFaults}

\* command lines given to run: none, or a program with one argument
CmdInputs == {<<>>, <<"prog", "arg">>}

\* a run that records the context as the active one before it spawns
run_child_tracking(s, name, cmd, e) ==
    LET loaded == load_context_metadata(s, name, e.fault)
        gcloud_config == profile_of(loaded.val, name)
        calls == << Call("child", cmd[1], gcloud_config, name) >>
    IN IF ~loaded.ok THEN Done(s, loaded.err, <<>>)
       ELSE IF e.child = "nospawn"
            THEN Done(set_current_tracking(s, name), "SpawnFailed", calls)
       ELSE IF e.child = "fail"
            THEN Done(set_current_tracking(s, name), "ExternalCommandFailed", calls)
       ELSE Done(set_current_tracking(s, name), "Ok", calls)

\* run.rs lines 32-63: resolve the profile and spawn the child
run_child(s, name, cmd, e) ==
    LET loaded == load_context_metadata(s, name, e.fault)
        gcloud_config == profile_of(loaded.val, name)
        calls == << Call("child", cmd[1], gcloud_config, name) >>
    IN IF ~loaded.ok THEN Done(s, loaded.err, <<>>)
       ELSE IF e.child = "nospawn" THEN Done(s, "SpawnFailed", calls)
       ELSE IF e.child = "fail" THEN Done(s, "ExternalCommandFailed", calls)
       ELSE Done(s, "Ok", calls)

\* a run that looks for the context before it looks at the command
run_with_context_exists_first(s, context_name, cmd, e) ==
    IF ~validate_context_name(context_name) THEN Done(s, "InvalidName", <<>>)
    ELSE IF e.fault = "store_dir" THEN Done(s, "Io", <<>>)
    ELSE IF ~context_exists(s, context_name) THEN Done(s, "ContextNotFound", <<>>)
    ELSE IF cmd = <<>> THEN Done(s, "NoCommand", <<>>)
    ELSE run_child(s, context_name, cmd, e)

run_with_context(s, context_name, cmd, e) ==
    IF ~validate_context_name(context_name) THEN Done(s, "InvalidName", <<>>)
    ELSE IF cmd = <<>> THEN Done(s, "NoCommand", <<>>)
    ELSE IF e.fault = "store_dir" THEN Done(s, "Io", <<>>)
    ELSE IF ~context_exists(s, context_name) THEN Done(s, "ContextNotFound", <<>>)
    ELSE run_child(s, context_name, cmd, e)

-----------------------------------------------------------------------------
(* Operation: login. *)

\* describe, setup (activate or create), auth and adc: how the four gcloud
\* commands end; blob: the credentials a completed ADC login writes; save:
\* what the closing save_context meets
LoginEnv(describe, setup, auth, adc, blob, save) ==
    [describe |-> describe, setup |-> setup, auth |-> auth, adc |-> adc,
     blob |-> blob, save |-> save]

\* a login that completes with each blob, each of the four commands ending
\* each other way, and the closing save failing
LoginEnvs ==
    {LoginEnv("ok", "ok", "ok", "ok", b, SaveEnvOk) : b \in Blobs}
    \cup {LoginEnv("fail", m, "ok", "ok", 1, SaveEnvOk) : m \in ToolModes}
    \cup {LoginEnv(d, m, a, c, 1, SaveEnvOk) :
            d \in {"ok", "nospawn"}, m \in ToolModes, a \in ToolModes, c \in ToolModes}
    \cup {LoginEnv("ok", "ok", "ok", "ok", 1,
                   SaveEnv("nospawn", AcctOk, ProjOk, "ok", "none"))}

\* gcloud auth application-default login: a completed flow writes the
\* provider's credential file
gcloud_adc_login(s, blob, mode) ==
    IF mode = "ok" THEN [s EXCEPT !.live = Some(blob)] ELSE s

\* a login for which an account login flow that exits non-zero is fatal
login_flows_auth_fatal(s, name, quiet, e, calls) ==
    LET calls1 == Append(calls, Call("gcloud", "auth-login", <<>>, <<>>))
        calls2 == Append(calls1, Call("gcloud", "adc-login", <<>>, <<>>))
        saved == save_context(gcloud_adc_login(s, e.blob, e.adc), name, quiet, e.save)
    IN IF e.auth # "ok" THEN Done(s, "ExternalToolError", calls1)
       ELSE IF e.adc = "nospawn" THEN Done(s, "SpawnFailed", calls2)
       ELSE Done(saved.s, saved.result, calls2 \o saved.calls)

\* login.rs lines 52-84: the two login flows, then save_context
login_flows(s, name, quiet, e, calls) ==
    LET calls1 == Append(calls, Call("gcloud", "auth-login", <<>>, <<>>))
        calls2 == Append(calls1, Call("gcloud", "adc-login", <<>>, <<>>))
        saved == save_context(gcloud_adc_login(s, e.blob, e.adc), name, quiet, e.save)
    IN IF e.auth = "nospawn" THEN Done(s, "SpawnFailed", calls1)
       ELSE IF e.adc = "nospawn" THEN Done(s, "SpawnFailed", calls2)
       ELSE Done(saved.s, saved.result, calls2 \o saved.calls)

\* login.rs lines 20-50: describe the configuration, activate or create it
login_setup(s, name, quiet, e) ==
    LET calls == << Call("gcloud", "describe", name, <<>>) >>
        calls1 == Append(calls, Call("gcloud",
                                     IF e.describe = "ok" THEN "activate" ELSE "create",
                                     name, <<>>))
    IN IF e.describe = "nospawn" THEN Done(s, "SpawnFailed", calls)
       ELSE IF e.setup = "nospawn" THEN Done(s, "SpawnFailed", calls1)
       ELSE login_flows(gcloud_activate(s, name, e.setup), name, quiet, e, calls1)

\* a login that sets up the configuration before looking at the name
login_context_unvalidated(s, name, quiet, e) == login_setup(s, name, quiet, e)

login_context(s, name, quiet, e) ==
    IF ~validate_context_name(name) THEN Done(s, "InvalidName", <<>>)
    ELSE login_setup(s, name, quiet, e)

-----------------------------------------------------------------------------
(* The state machine: gcpx is invoked from the shell prompt, runs one      *)
(* operation and exits; between invocations the user changes the           *)
(* workstation with gcloud and kubectl.                                    *)

Last(op, name, flag, result, calls) ==
    [op |-> op, name |-> name, flag |-> flag, result |-> result, calls |-> calls]

Idle == Last("idle", <<>>, FALSE, "Ok", <<>>)

\* flag of last: --quiet (save, switch, login), --gcloud-config (delete), a
\* command was given (run)

Trip(stage, a, x, b, y) == [stage |-> stage, a |-> a, x |-> x, b |-> b, y |-> y]

NoTrip == Trip(0, <<>>, 0, <<>>, 0)

\* trip after an invocation: stage 1 after a successful save of a while the
\* live blob is x, stage 2 when the next invocation is a successful save of
\* another name b while the live blob is y, stage 3 when the next is a
\* successful switch to a, stage 4 when the next is a successful switch to b
NextTrip(op, name, r) ==
    IF r.result # "Ok" THEN NoTrip
    ELSE IF op = "save" THEN
        IF trip.stage = 1 /\ name # trip.a
        THEN Trip(2, trip.a, trip.x, name, Get(r.s.live))
        ELSE Trip(1, name, Get(r.s.live), <<>>, 0)
    ELSE IF op = "switch" /\ trip.stage = 2 /\ name = trip.a
        THEN [trip EXCEPT !.stage = 3]
    ELSE IF op = "switch" /\ trip.stage = 3 /\ name = trip.b
        THEN [trip EXCEPT !.stage = 4]
    ELSE NoTrip

Init ==
    /\ store = [n \in NameInputs |-> None]
    /\ marker = None
    /\ liveAdc = None
    /\ activeProfile = StrDefault
    /\ kubectlCtx = None
    /\ last = Idle
    /\ trip = NoTrip

\* the step of an operation that returned r
Apply(op, name, flag, r) ==
    /\ last = Idle
    /\ store' = r.s.store
    /\ marker' = r.s.marker
    /\ liveAdc' = r.s.live
    /\ activeProfile' = r.s.profile
    /\ kubectlCtx' = r.s.kctx
    /\ last' = Last(op, name, flag, r.result, r.calls)
    /\ trip' = NextTrip(op, name, r)

\* gcpx save <name> [--quiet]
Save(envs) ==
    \E name \in NameInputs, quiet \in BOOLEAN, e \in envs :
        Apply("save", name, quiet, save_context(State, name, quiet, e))

\* gcpx switch <name> [--quiet]
Switch(envs) ==
    \E name \in NameInputs, quiet \in BOOLEAN, e \in envs :
        Apply("switch", name, quiet, switch_context(State, name, quiet, e))

\* gcpx delete <name> [--gcloud-config]
Delete(envs) ==
    \E name \in NameInputs, delete_gcloud_config \in BOOLEAN, e \in envs :
        Apply("delete", name, delete_gcloud_config,
              delete_context(State, name, delete_gcloud_config, e))

\* gcpx run <name> -- <cmd...>
Run(envs) ==
    \E name \in NameInputs, cmd \in CmdInputs, e \in envs :
        Apply("run", name, cmd # <<>>, run_with_context(State, name, cmd, e))

\* gcpx login <name> [--quiet]
Login(envs) ==
    \E name \in NameInputs, quiet \in BOOLEAN, e \in envs :
        Apply("login", name, quiet, login_context(State, name, quiet, e))

\* main returns and the shell prompts again
Exit ==
    /\ last # Idle
    /\ last' = Idle
    /\ UNCHANGED <<store, marker, liveAdc, activeProfile, kubectlCtx, trip>>

\* the user runs gcloud auth application-default login outside gcpx
EnvAdcLogin ==
    /\ last = Idle
    /\ \E b \in Blobs : liveAdc' = Some(b)
    /\ UNCHANGED <<store, marker, activeProfile, kubectlCtx, last, trip>>

\* the user selects or unsets the kubectl context outside gcpx
EnvKubectl ==
    /\ last = Idle
    /\ kubectlCtx' = IF IsSome(kubectlCtx) THEN None ELSE Some(StrKube)
    /\ UNCHANGED <<store, marker, liveAdc, activeProfile, last, trip>>

\* Every operation with the external commands ending each way, on a file
\* system whose calls succeed; kubectl has no current context.
Next ==
    \/ Save(SaveEnvs)
    \/ Switch(SwitchEnvs)
    \/ Delete(DeleteEnvs)
    \/ Run(RunEnvs)
    \/ Login(LoginEnvs)
    \/ Exit
    \/ EnvAdcLogin

Spec == Init /\ [][Next]_vars

\* The store with every answer of the account, project and kubectl queries,
\* on a file system whose calls succeed; without login the active gcloud
\* configuration stays "default".
NextAnswers ==
    \/ Save(SaveAnswerEnvs)
    \/ Switch(SwitchEnvs)
    \/ Delete(DeleteEnvs)
    \/ Run(RunEnvs)
    \/ Exit
    \/ EnvAdcLogin
    \/ EnvKubectl

SpecAnswers == Init /\ [][NextAnswers]_vars

\* Every operation on a file system where one call of an invocation may
\* fail, with the external commands ending each way.
NextFaults ==
    \/ Save({SaveEnvOk} \cup SaveFaultEnvs)
    \/ Switch(SwitchEnvs \cup SwitchFaultEnvs)
    \/ Delete({DeleteEnv("ok", FALSE, "none")} \cup DeleteFaultEnvs)
    \/ Run(RunEnvs \cup RunFaultEnvs)
    \/ Exit
    \/ EnvAdcLogin

SpecFaults == Init /\ [][NextFaults]_vars

-----------------------------------------------------------------------------
(* The name validator on its own: every string over Alphabet up to MaxLen. *)

\* US, space, ".", "/", "\", "a", DEL
Alphabet == {31, 32, 46, 47, 92, 97, 127}

RECURSIVE StringsUpTo(_)
StringsUpTo(n) ==
    IF n = 0 THEN {<<>>}
    ELSE LET shorter == StringsUpTo(n - 1)
         IN shorter \cup {Append(s, c) : s \in shorter, c \in Alphabet}

\* validate_context_name(name) is called and returns
Validate ==
    /\ last = Idle
    /\ \E name \in StringsUpTo(MaxLen) :
        last' = Last("validate", name, FALSE,
                     IF validate_context_name(name) THEN "Ok" ELSE "InvalidName",
                     <<>>)
    /\ UNCHANGED <<store, marker, liveAdc, activeProfile, kubectlCtx, trip>>

NextValidate == Validate \/ Exit

SpecValidate == Init /\ [][NextValidate]_vars

-----------------------------------------------------------------------------
(* Properties. *)

Operations == {"save", "switch", "delete", "run", "login"}

\* the stored credential blob of every context
StoredBlobs ==
    [n \in NameInputs |->
        IF context_exists(State, n) THEN Some(stored_blob(State, n)) ELSE None]

\* nothing on the workstation changes in this step
Untouched ==
    /\ store' = store
    /\ marker' = marker
    /\ liveAdc' = liveAdc
    /\ activeProfile' = activeProfile
    /\ kubectlCtx' = kubectlCtx

\* number of times name occurs in the sequence
Count(seq, name) == Cardinality({i \in 1..Len(seq) : seq[i] = name})

\* C1: once save(a) has run while the live blob is x and then save(b), for
\* another name b, while the live blob is y, a successful switch(a) leaves
\* the live blob equal to x and a following successful switch(b) leaves it
\* equal to y, and neither switch changes a stored blob.
C1_SaveSwitchRoundTrip ==
    [][(last'.op = "switch" /\ last'.result = "Ok" /\ trip'.stage \in {3, 4})
        => /\ liveAdc' = Some(IF trip'.stage = 3 THEN trip'.x ELSE trip'.y)
           /\ StoredBlobs' = StoredBlobs]_vars

C1_Witness ==
    /\ last.op = "switch"
    /\ trip.stage = 4
    /\ trip.x # trip.y
    /\ liveAdc = Some(trip.y)

\* the rejection rule as the claim words it: empty, "." or "..", a leading
\* ".", a "/" or "\", or a code point below 32
RejectedBelow32(name) ==
    \/ name = <<>>
    \/ name = <<46>> \/ name = <<46, 46>>
    \/ StartsWith(name, 46)
    \/ Contains(name, 47) \/ Contains(name, 92)
    \/ \E i \in 1..Len(name) : name[i] < 32

C3_InvalidNameFirst ==
    [][(last'.op \in Operations /\ ~validate_context_name(last'.name))
        => /\ last'.result = "InvalidName"
           /\ last'.calls = <<>>
           /\ Untouched]_vars

C3_Witness ==
    /\ last.op = "login"
    /\ last.name = StrDotA
    /\ last.result = "InvalidName"
    /\ IsSome(liveAdc)

\* C4: save with a valid name while the provider's credential file is
\* absent fails with NoCredentials, runs no external command and changes
\* nothing.
C4_SaveWithoutCredentials ==
    [][(last'.op = "save" /\ validate_context_name(last'.name) /\ ~IsSome(liveAdc))
        => /\ last'.result = "NoCredentials"
           /\ last'.calls = <<>>
           /\ Untouched]_vars

C4_Witness ==
    /\ last.op = "save"
    /\ last.name = StrA
    /\ last.result = "NoCredentials"

\* C5: after a successful save(n), list_contexts() holds n exactly once,
\* context_exists(n) is true and get_current_tracking() is n.
C5_SaveListedAndActive ==
    (last.op = "save" /\ last.result = "Ok")
        => /\ Count(list_contexts(State), last.name) = 1
           /\ context_exists(State, last.name)
           /\ get_current_tracking(State, "none") = last.name

C5_Witness ==
    /\ last.op = "save"
    /\ last.result = "Ok"
    /\ last.name = StrA
    /\ Len(list_contexts(State)) = 2

\* what an account or project query answered: the value it printed, absent
\* when it printed nothing, "(unset)", or did not exit zero
Answered(output, value) ==
    IF output = ToolOutput(TRUE, TRUE, value \o <<10>>) THEN Some(value) ELSE None

\* the record a save under e observes in the current state
Observed(e) ==
    ContextMetadata(IF e.cfg = "ok" THEN activeProfile ELSE StrDefault,
                    Answered(e.acct, StrAcct), Answered(e.proj, StrProj),
                    IF e.kctl = "ok" THEN kubectlCtx ELSE None)

MetadataKeys == {"gcloud_config", "account", "project", "kubectl_context"}

\* the text holds the members of record m and nothing else
HoldsExactly(text, m) ==
    /\ from_str(text).ok
    /\ from_str(text).val = m
    /\ \A i \in 1..Len(text) : text[i][1] \in MetadataKeys
    /\ \A i, j \in 1..Len(text) : text[i][1] = text[j][1] => i = j
    /\ HasKey(text, "kubectl_context") <=> IsSome(m.kubectl_context)

\* C6: a successful save of a context that is already stored leaves its
\* stored blob equal to the live blob of the second save and its metadata
\* equal to exactly the record the second save observed: no member of the
\* first record survives.
C6_ResaveReplaces ==
    last = Idle =>
        \A name \in NameInputs, e \in SaveAnswerEnvs :
            LET r == save_context(State, name, FALSE, e)
            IN (context_exists(State, name) /\ r.result = "Ok")
                => /\ stored_blob(r.s, name) = Get(liveAdc)
                   /\ HoldsExactly(Get(Get(r.s.store[name]).meta), Observed(e))

\* a stored context a with a kubectl context and an account, about to be
\* saved again with another blob while kubectl has no context and the
\* account is unset
C6_Witness ==
    /\ last = Idle
    /\ context_exists(State, StrA)
    /\ IsSome(liveAdc)
    /\ stored_blob(State, StrA) # Get(liveAdc)
    /\ HasKey(Get(Get(store[StrA]).meta), "kubectl_context")
    /\ IsSome(KeyValue(Get(Get(store[StrA]).meta), "account"))
    /\ kubectlCtx = None
    /\ LET e == SaveEnv("ok", ToolOutput(TRUE, TRUE, StrUnset \o <<10>>), ProjOk,
                        "ok", "none")
           r == save_context(State, StrA, FALSE, e)
       IN /\ r.result = "Ok"
          /\ ~HasKey(Get(Get(r.s.store[StrA]).meta), "kubectl_context")
          /\ KeyValue(Get(Get(r.s.store[StrA]).meta), "account") = None

\* C7: switch to a valid name that has no stored credential blob fails with
\* ContextNotFound with and without --quiet, runs no external command and
\* changes neither the marker nor the live credentials.
C7_SwitchUnsaved ==
    [][(last'.op = "switch" /\ validate_context_name(last'.name)
            /\ ~context_exists(State, last'.name))
        => /\ last'.result = "ContextNotFound"
           /\ last'.calls = <<>>
           /\ Untouched]_vars

\* a quiet switch to the context the marker names, after it was deleted
C7_Witness ==
    /\ last.op = "switch"
    /\ last.flag
    /\ last.result = "ContextNotFound"
    /\ marker = Some(last.name)

\* C8: switch to an existing context that the marker already names succeeds,
\* runs no external command and changes nothing.
C8_SwitchAlreadyActive ==
    [][(last'.op = "switch" /\ validate_context_name(last'.name)
            /\ context_exists(State, last'.name)
            /\ get_current_tracking(State, "none") = last'.name)
        => /\ last'.result = "Ok"
           /\ last'.calls = <<>>
           /\ Untouched]_vars

\* the short-circuit taken for a context whose metadata names a kubectl
\* context that is not the current one and whose blob is not the live one
C8_Witness ==
    /\ last.op = "switch"
    /\ last.result = "Ok"
    /\ last.calls = <<>>
    /\ marker = Some(last.name)
    /\ HasKey(Get(Get(store[last.name]).meta), "kubectl_context")
    /\ kubectlCtx = None
    /\ liveAdc # Some(stored_blob(State, last.name))

\* C9: delete without --gcloud-config of a stored context succeeds and
\* leaves it out of list_contexts() and context_exists(), its directory
\* gone; delete of a valid name that is not stored fails with
\* ContextNotFound and changes nothing.
C9_Delete ==
    [][(last'.op = "delete" /\ validate_context_name(last'.name))
        => IF context_exists(State, last'.name)
           THEN ~last'.flag
                => /\ last'.result = "Ok"
                   /\ Count(list_contexts(State'), last'.name) = 0
                   /\ ~context_exists(State', last'.name)
                   /\ store'[last'.name] = None
           ELSE /\ last'.result = "ContextNotFound"
                /\ last'.calls = <<>>
                /\ Untouched]_vars

C9_Witness ==
    /\ last.op = "delete"
    /\ ~last.flag
    /\ last.result = "Ok"
    /\ ~context_exists(State, last.name)
    /\ Len(list_contexts(State)) = 1

\* C10: run with a valid name and no command fails with NoCommand whether
\* or not the context is stored; run with a command for a context that is
\* not stored fails with ContextNotFound; neither spawns a child nor
\* changes the marker.
C10_RunErrorPrecedence ==
    [][(last'.op = "run" /\ validate_context_name(last'.name))
        => /\ ~last'.flag
              => (last'.result = "NoCommand" /\ last'.calls = <<>>
                    /\ marker' = marker)
           /\ (last'.flag /\ ~context_exists(State, last'.name))
              => (last'.result = "ContextNotFound" /\ last'.calls = <<>>
                    /\ marker' = marker)]_vars

\* no command given for a context that is not stored either
C10_Witness ==
    /\ last.op = "run"
    /\ last.result = "NoCommand"
    /\ ~context_exists(State, last.name)
    /\ IsSome(marker)

\* the profile recorded for a stored context: the gcloud_config member of
\* its metadata.json, the name itself when it has no metadata.json
RecordedProfile(name) ==
    LET meta == Get(store[name]).meta
    IN IF IsSome(meta) THEN KeyValue(Get(meta), "gcloud_config") ELSE Some(name)

\* C11: whatever run returns (Ok, ExternalCommandFailed after a child that
\* exited non-zero, or an earlier error), the marker, the live credential
\* file, the active profile, the kubectl context and every stored blob and
\* metadata record are as before, and the only command it starts is the
\* child, given the stored blob of the named context and its profile.
C11_RunScoped ==
    [][(last'.op = "run")
        => /\ Untouched
           /\ Len(last'.calls) <= 1
           /\ \A i \in 1..Len(last'.calls) :
                /\ last'.calls[i].tool = "child"
                /\ last'.calls[i].adc = last'.name
                /\ context_exists(State, last'.name)
                /\ Some(last'.calls[i].arg) = RecordedProfile(last'.name)]_vars

\* a child that exited non-zero, run for a context that is not the active
\* one and whose profile is not its name
C11_Witness ==
    /\ last.op = "run"
    /\ last.result = "ExternalCommandFailed"
    /\ last.name = StrA
    /\ marker = Some(StrNone)
    /\ last.calls[1].arg = StrDefault
    /\ liveAdc # Some(stored_blob(State, StrA))

\* C12: after every successful save(n), the first for n or a later one, the
\* stored adc.json of n has mode 0600.
C12_SavedBlobMode600 ==
    [][(last'.op = "save" /\ last'.result = "Ok")
        => /\ context_exists(State', last'.name)
           /\ stored_mode(State', last'.name) = Mode600]_vars

\* a successful save next to a blob that a failed save left with the mode
\* fs::write gave it
C12_Witness ==
    /\ last.op = "save"
    /\ last.result = "Ok"
    /\ last.name = StrA
    /\ stored_mode(State, StrA) = Mode600
    /\ context_exists(State, StrNone)
    /\ stored_mode(State, StrNone) = DefaultMode

\* every way the commands and file calls of a save, of a switch, can end
AllSaveEnvs == SaveEnvs \cup SaveAnswerEnvs \cup SaveFaultEnvs

AllSwitchEnvs == SwitchEnvs \cup SwitchFaultEnvs

TrackingFaults == {"none", "store_dir", "marker_read"}

\* C14: get_current_tracking() returns the text of the marker file when the
\* file is there and can be read, and "none" when the file is missing, cannot
\* be read or the store root is unavailable; it is "none" on an empty store,
\* n right after set_current_tracking(n), and so n after every save and
\* every switch that ran to its end and recorded n as active.
C14_GetActiveNeverFails ==
    /\ \A fault \in TrackingFaults :
        get_current_tracking(State, fault)
            = IF fault = "none" /\ IsSome(marker) THEN Get(marker) ELSE StrNone
    /\ \A n \in NameInputs :
        validate_context_name(n)
            => get_current_tracking(set_current_tracking(State, n), "none") = n
    /\ (last.op \in {"save", "switch"} /\ last.result = "Ok" /\ last.calls # <<>>)
            => get_current_tracking(State, "none") = last.name

\* the marker names a, just recorded by a switch, and an unreadable marker
\* file reads as "none"
C14_Witness ==
    /\ last.op = "switch"
    /\ last.result = "Ok"
    /\ last.calls # <<>>
    /\ get_current_tracking(State, "none") = StrA
    /\ get_current_tracking(State, "marker_read") = StrNone

\* the elements of a sequence
Range(seq) == {seq[i] : i \in 1..Len(seq)}

\* the saved names after this step: a successful save or login adds its
\* name, a delete that removed the directory (it returned Ok, or failed only
\* in deleting the gcloud configuration afterwards) drops its name
SavedAfterStep ==
    LET saved == Range(list_contexts(State))
    IN IF last'.op \in {"save", "login"} /\ last'.result = "Ok"
       THEN saved \cup {last'.name}
       ELSE IF last'.op = "delete" /\ (last'.result = "Ok" \/ last'.calls # <<>>)
       THEN saved \ {last'.name}
       ELSE saved

\* C15: list_contexts() is empty on an empty store and after every step it
\* holds exactly the names saved and not deleted since, each once, in
\* ascending order whatever the order of the saves; no listed name starts
\* with a dot, so the marker file .current is never listed.
C15_ListExactlySaved ==
    /\ list_contexts(State) = <<>>
    /\ [][LET listed == list_contexts(State')
          IN /\ Range(listed) = SavedAfterStep
             /\ \A i, j \in 1..Len(listed) : i < j => StrLess(listed[i], listed[j])
             /\ \A i \in 1..Len(listed) : ~StartsWith(listed[i], 46)]_vars

\* "none" was saved before "a", the marker file exists, and "a" is listed
\* first
C15_Witness ==
    /\ last.op = "save"
    /\ last.result = "Ok"
    /\ last.name = StrA
    /\ IsSome(marker)
    /\ [name |-> StrCurrent, is_dir |-> FALSE] \in read_dir(State)
    /\ list_contexts(State) = <<StrA, StrNone>>

\* C16: whenever switch(name) returns Ok, by the full path or by the
\* already-active short-circuit, the live credential blob equals the stored
\* blob of name and the active profile is the profile recorded for name.
C16_SwitchLeavesContextLive ==
    (last.op = "switch" /\ last.result = "Ok")
        => /\ liveAdc = Some(stored_blob(State, last.name))
           /\ Some(activeProfile) = RecordedProfile(last.name)

\* the group and other read bits (0o044) of a mode
GroupOrWorldReadable(mode) == (mode \div 32) % 2 = 1 \/ (mode \div 4) % 2 = 1

\* C17: in every reachable state, the states a failed save leaves behind
\* included, no stored adc.json is readable by the group or by others.
C17_BlobsNeverGroupWorldReadable ==
    \A n \in NameInputs :
        context_exists(State, n) => ~GroupOrWorldReadable(stored_mode(State, n))

\* C18: a switch that returns an error, at whichever step, leaves the active
\* profile, the live credential blob, the kubectl context and the marker as
\* they were before the call.
C18_SwitchAllOrNothing ==
    [][(last'.op = "switch" /\ last'.result # "Ok")
        => /\ activeProfile' = activeProfile
           /\ liveAdc' = liveAdc
           /\ kubectlCtx' = kubectlCtx
           /\ marker' = marker]_vars

\* C19: between operations, after a save that failed part-way as well, a
\* name is returned by list_contexts() if and only if context_exists finds
\* it.
C19_ListAgreesWithExists ==
    last = Idle =>
        \A n \in NameInputs :
            (n \in Range(list_contexts(State))) <=> context_exists(State, n)

\* C20: delete of a valid name fails with ContextNotFound exactly when the
\* directory of the context does not exist; when the directory exists, with
\* or without adc.json in it, delete does not report ContextNotFound and a
\* delete that succeeds has removed it.  (An unavailable store root may make
\* either case fail with an I/O error instead.)
C20_DeleteNotFoundIffNoDirectory ==
    [][(last'.op = "delete" /\ validate_context_name(last'.name))
        => IF IsSome(store[last'.name])
           THEN /\ last'.result # "ContextNotFound"
                /\ last'.result = "Ok" => store'[last'.name] = None
           ELSE last'.result \in {"ContextNotFound", "Io"}]_vars

\* C21: delete never writes the marker.  Deleting the active context goes
\* ahead, and afterwards get_current_tracking() still returns its name
\* although context_exists denies it; the marker changes only in a
\* successful save, switch or login.
C21_DeleteKeepsMarker ==
    [][/\ (last'.op = "delete") => marker' = marker
       /\ (last'.op = "delete" /\ ~last'.flag /\ context_exists(State, last'.name)
                /\ get_current_tracking(State, "none") = last'.name)
            => /\ last'.result = "Ok"
               /\ get_current_tracking(State', "none") = last'.name
               /\ ~context_exists(State', last'.name)
       /\ (marker' # marker)
            => /\ last'.op \in {"save", "switch", "login"}
               /\ last'.result = "Ok"
               /\ marker' = Some(last'.name)]_vars

\* the active context a was deleted: the marker names a context that does
\* not exist
C21_Witness ==
    /\ last.op = "delete"
    /\ last.result = "Ok"
    /\ last.name = StrA
    /\ marker = Some(StrA)
    /\ ~context_exists(State, StrA)
    /\ get_current_tracking(State, "none") = StrA

\* every way the command and the file calls of a delete can end
AllDeleteEnvs == DeleteEnvs \cup DeleteFaultEnvs

\* C22: in a delete with --gcloud-config of a stored context, the directory
\* is removed before the deletion of the gcloud configuration is attempted:
\* when that deletion exits non-zero with "does not exist" in its error the
\* delete succeeds; when it fails in any other way the delete fails and the
\* context stays deleted; when the removal of the directory fails the
\* deletion of the configuration is not attempted.
C22_DeleteCommitsDirectoryFirst ==
    last = Idle =>
        \A name \in NameInputs, e \in AllDeleteEnvs :
            LET r == delete_context(State, name, TRUE, e)
                attempted == r.calls # <<>>
            IN (context_exists(State, name) /\ e.fault # "store_dir")
                => IF e.fault = "rmdir"
                   THEN r.result # "Ok" /\ ~attempted /\ r.s = State
                   ELSE /\ attempted
                        /\ ~context_exists(r.s, name)
                        /\ r.s.store[name] = None
                        /\ r.result = "Ok" <=> (e.del = "ok" \/ (e.del = "fail" /\ e.dne))

\* a stored context whose delete with --gcloud-config fails in the
\* deletion of the configuration and leaves the context deleted
C22_Witness ==
    /\ last = Idle
    /\ context_exists(State, StrA)
    /\ LET r == delete_context(State, StrA, TRUE, DeleteEnv("fail", FALSE, "none"))
           d == delete_context(State, StrA, TRUE, DeleteEnv("fail", TRUE, "none"))
           f == delete_context(State, StrA, TRUE, DeleteEnv("ok", FALSE, "rmdir"))
       IN /\ r.result = "ExternalToolError" /\ ~context_exists(r.s, StrA)
          /\ d.result = "Ok" /\ ~context_exists(d.s, StrA)
          /\ f.result = "Io" /\ f.calls = <<>> /\ context_exists(f.s, StrA)

\* C23: a delete with --gcloud-config of a stored context asks gcloud to
\* delete the profile a switch to that context would activate: the
\* gcloud_config recorded in its metadata, the context name only when it
\* has no metadata.
C23_DeleteTargetsRecordedProfile ==
    [][(last'.op = "delete" /\ last'.flag /\ last'.calls # <<>>)
        => /\ last'.calls[1].tool = "gcloud"
           /\ last'.calls[1].cmd = "delete"
           /\ Some(last'.calls[1].arg) = RecordedProfile(last'.name)]_vars

\* a query failed: the command could not be started or did not exit zero
QueryFailed(output) == ~(output.spawned /\ output.success)

\* C24: in a save with credentials present, a failed account query or a
\* failed project query leaves the save succeeding with that member absent
\* from the metadata, and a failed profile query makes the save fail with
\* nothing written.
C24_SaveQueryFailures ==
    last = Idle =>
        \A name \in NameInputs, e \in SaveEnvs \cup SaveAnswerEnvs :
            LET r == save_context(State, name, FALSE, e)
                meta == from_str(Get(Get(r.s.store[name]).meta)).val
            IN (validate_context_name(name) /\ IsSome(liveAdc))
                => IF e.cfg # "ok"
                   THEN r.result # "Ok" /\ r.s = State
                   ELSE /\ r.result = "Ok"
                        /\ QueryFailed(e.acct) => meta.account = None
                        /\ QueryFailed(e.proj) => meta.project = None

\* C25: when the profile activation of a switch exits non-zero, the switch
\* fails with ExternalToolError and stops there: the activation is the only
\* command it ran, and the live credential file, the kubectl context and the
\* marker are as before.
C25_SwitchActivationFailure ==
    last = Idle =>
        \A name \in NameInputs, quiet \in BOOLEAN, k \in ToolModes :
            LET r == switch_context(State, name, quiet, SwitchEnv("fail", k, "none"))
            IN (context_exists(State, name)
                    /\ get_current_tracking(State, "none") # name)
                => /\ r.result = "ExternalToolError"
                   /\ Len(r.calls) = 1
                   /\ r.calls[1].tool = "gcloud" /\ r.calls[1].cmd = "activate"
                   /\ r.s.live = liveAdc
                   /\ r.s.kctx = kubectlCtx
                   /\ r.s.marker = marker

\* a stored context a, not the active one, whose blob is not the live one
\* and whose metadata names a kubectl context that is not the current one:
\* a switch would change all three, and with the activation failing changes
\* none
C25_Witness ==
    /\ last = Idle
    /\ context_exists(State, StrA)
    /\ marker = Some(StrNone)
    /\ liveAdc # Some(stored_blob(State, StrA))
    /\ IsSome(Get(store[StrA]).meta)
    /\ HasKey(Get(Get(store[StrA]).meta), "kubectl_context")
    /\ kubectlCtx = None
    /\ switch_context(State, StrA, FALSE, SwitchEnv("ok", "ok", "none")).s.kctx
            # kubectlCtx
    /\ switch_context(State, StrA, FALSE, SwitchEnv("fail", "ok", "none")).result
            = "ExternalToolError"

\* C26: in a switch to a stored context, not the active one, whose metadata
\* names a kubectl context, a kubectl that is missing or exits non-zero does
\* not fail the switch: it returns Ok with the live blob equal to the
\* stored blob and the marker naming the context.  The marker is written
\* last: when its write fails, the credentials have been copied and kubectl
\* has been tried.
C26_KubectlBestEffort ==
    last = Idle =>
        \A name \in NameInputs, k \in {"fail", "nospawn"} :
            LET r == switch_context(State, name, FALSE, SwitchEnv("ok", k, "none"))
                w == switch_context(State, name, FALSE,
                                    SwitchEnv("ok", k, "marker_write"))
                tried(calls) ==
                    \E i \in 1..Len(calls) :
                        calls[i].tool = "kubectl" /\ calls[i].cmd = "use-context"
            IN (/\ context_exists(State, name)
                /\ get_current_tracking(State, "none") # name
                /\ IsSome(Get(store[name]).meta)
                /\ from_str(Get(Get(store[name]).meta)).ok
                /\ IsSome(from_str(Get(Get(store[name]).meta)).val.kubectl_context))
                => /\ r.result = "Ok"
                   /\ tried(r.calls)
                   /\ r.s.kctx = kubectlCtx
                   /\ r.s.live = Some(stored_blob(State, name))
                   /\ r.s.marker = Some(name)
                   /\ w.result # "Ok"
                   /\ w.s.marker = marker
                   /\ w.s.live = Some(stored_blob(State, name))
                   /\ tried(w.calls)

\* a stored context a with a kubectl context in its metadata, not active,
\* with another blob live and no current kubectl context
C26_Witness ==
    /\ last = Idle
    /\ context_exists(State, StrA)
    /\ marker = Some(StrNone)
    /\ liveAdc # Some(stored_blob(State, StrA))
    /\ IsSome(Get(store[StrA]).meta)
    /\ from_str(Get(Get(store[StrA]).meta)).ok
    /\ IsSome(from_str(Get(Get(store[StrA]).meta)).val.kubectl_context)
    /\ kubectlCtx = None
    /\ LET r == switch_context(State, StrA, FALSE, SwitchEnv("ok", "nospawn", "none"))
       IN r.result = "Ok" /\ r.s.kctx = None /\ r.s.marker = Some(StrA)

\* C27: for a stored context that is not the active one, on a file system
\* whose calls succeed: the profile a switch activates and the profile a run
\* hands to its child are the gcloud_config of metadata.json when the file
\* is there and parses, and the context name when the file is absent; when
\* the file is there and does not parse, both fail with CorruptMetadata and
\* run no command.
C27_ProfileResolution ==
    last = Idle =>
        \A name \in NameInputs, e \in SwitchEnvs, c \in RunEnvs :
            LET w == switch_context(State, name, FALSE, e)
                r == run_with_context(State, name, <<"prog", "arg">>, c)
                meta == Get(store[name]).meta
            IN (context_exists(State, name)
                    /\ get_current_tracking(State, "none") # name)
                => IF ~IsSome(meta)
                   THEN /\ w.calls[1] = Call("gcloud", "activate", name, <<>>)
                        /\ r.calls[1].tool = "child" /\ r.calls[1].arg = name
                   ELSE IF from_str(Get(meta)).ok
                   THEN /\ w.calls[1] = Call("gcloud", "activate",
                                             from_str(Get(meta)).val.gcloud_config, <<>>)
                        /\ r.calls[1].tool = "child"
                        /\ r.calls[1].arg = from_str(Get(meta)).val.gcloud_config
                   ELSE /\ w.result = "CorruptMetadata" /\ w.calls = <<>> /\ w.s = State
                        /\ r.result = "CorruptMetadata" /\ r.calls = <<>> /\ r.s = State

\* the stored context a, whose metadata does not parse, next to the active
\* context "none", whose metadata records a profile other than its name
C27_Witness ==
    /\ last = Idle
    /\ context_exists(State, StrA)
    /\ context_exists(State, StrNone)
    /\ marker = Some(StrNone)
    /\ IsSome(Get(store[StrA]).meta)
    /\ ~from_str(Get(Get(store[StrA]).meta)).ok
    /\ IsSome(Get(store[StrNone]).meta)
    /\ from_str(Get(Get(store[StrNone]).meta)).ok
    /\ from_str(Get(Get(store[StrNone]).meta)).val.gcloud_config = StrDefault
    /\ switch_context(State, StrA, FALSE, SwitchEnv("ok", "ok", "none")).result
            = "CorruptMetadata"

\* the four gcloud commands of a login, in order
LoginCommands(name, e) ==
    << Call("gcloud", "describe", name, <<>>),
       Call("gcloud", IF e.describe = "ok" THEN "activate" ELSE "create", name, <<>>),
       Call("gcloud", "auth-login", <<>>, <<>>),
       Call("gcloud", "adc-login", <<>>, <<>>) >>

\* the workstation as gcloud leaves it when the four commands have run: the
\* configuration name active if the activation or creation exited zero, the
\* credential file written if the ADC flow exited zero
AfterLoginCommands(name, e) ==
    [State EXCEPT !.profile = IF e.setup = "ok" THEN name ELSE @,
                  !.live = IF e.adc = "ok" THEN Some(e.blob) ELSE @]

\* login ran the four commands in order, then save, and returned what save
\* returned and left what save left
LoginReachesSave(name, quiet, e) ==
    LET r == login_context(State, name, quiet, e)
        saved == save_context(AfterLoginCommands(name, e), name, quiet, e.save)
    IN /\ r.result = saved.result
       /\ r.s = saved.s
       /\ r.calls = LoginCommands(name, e) \o saved.calls

\* the commands of a login that could not be started
NotStarted(e) ==
    {i \in 1..4 : <<e.describe, e.setup, e.auth, e.adc>>[i] = "nospawn"}

\* C28 as claimed: whatever way the check, the activation or creation and the
\* two login flows fail, login with a valid name goes through describe,
\* activate or create, auth login, ADC login and save in this order and
\* returns the result of save.
C28_LoginAlwaysReachesSave ==
    last = Idle =>
        \A name \in NameInputs, quiet \in BOOLEAN, e \in LoginEnvs :
            validate_context_name(name) => LoginReachesSave(name, quiet, e)

\* C28: login with a valid name goes through describe, activate (describe
\* exited zero) or create, auth login, ADC login and save in this order; a
\* non-zero exit of the activation or creation or of a login flow does not
\* stop it, so that save is reached and its result returned whenever the
\* four commands could be started; when one of them cannot be started, login
\* fails at that command, runs nothing after it and leaves the store and
\* the marker as they were.
C28_LoginOrder ==
    last = Idle =>
        \A name \in NameInputs, quiet \in BOOLEAN, e \in LoginEnvs :
            LET r == login_context(State, name, quiet, e)
                first == CHOOSE i \in NotStarted(e) : \A j \in NotStarted(e) : i <= j
            IN validate_context_name(name)
                => IF NotStarted(e) = {}
                   THEN LoginReachesSave(name, quiet, e)
                   ELSE /\ r.result = "SpawnFailed"
                        /\ r.calls = SubSeq(LoginCommands(name, e), 1, first)
                        /\ r.s.store = store
                        /\ r.s.marker = marker

\* next to the active context "none": a login of a whose activation and
\* account login exit non-zero still saves a from the credentials the ADC
\* login wrote
C28_Witness ==
    /\ last = Idle
    /\ liveAdc = Some(2)
    /\ marker = Some(StrNone)
    /\ ~context_exists(State, StrA)
    /\ LET e == LoginEnv("ok", "fail", "fail", "ok", 1, SaveEnvOk)
           r == login_context(State, StrA, FALSE, e)
       IN /\ e \in LoginEnvs
          /\ r.result = "Ok"
          /\ Len(r.calls) = 8
          /\ stored_blob(r.s, StrA) = 1
          /\ r.s.marker = Some(StrA)

\* C29: get_current_tracking() returns "none" if and only if no save or
\* switch has written the marker; no stored context is named "none"; and no
\* switch takes the already-active short-circuit for the name "none".
C29_SentinelUnambiguous ==
    /\ (get_current_tracking(State, "none") = StrNone) <=> ~IsSome(marker)
    /\ ~context_exists(State, StrNone)
    /\ (last.op = "switch" /\ last.result = "Ok" /\ last.calls = <<>>)
            => last.name # StrNone

====
